---- MODULE Spec2Model ----
(***************************************************************************)
(* BaseService of warthog: the soft-delete aware query builder            *)
(* (buildFindQuery), the relation filter resolver (RelationsManager) and  *)
(* the record facade (find, findOne, create, update, delete), run against *)
(* a small relational store with SQL's three-valued logic.                *)
(***************************************************************************)
EXTENDS Integers, Sequences, FiniteSets, TLC

(***************************************************************************)
(* Values.  Every scalar is a sequence of integers: a number n is <<n>>, a *)
(* string is the sequence of its characters (1 = 'A', 2 = 'B').  NULL and  *)
(* UNDEFINED are two sequences no column value equals.                     *)
(***************************************************************************)
NULL == << -1 >>
UNDEFINED == << -2 >>

\* ---- bounds of the model ------------------------------------------------
MaxRows == 2
MaxBooks == 2
MaxClock == 2
MaxPageRows == 3
MaxPages == 3

\* ---- program constants --------------------------------------------------
FindDefaultLimit == 20
DEFAULT_LIMIT == 50

\* ---- value domains ------------------------------------------------------
Names == { <<2>>, <<1, 2>> }
Registereds == { NULL, <<1>> }
DeletedAts == { NULL, <<1>> }

RECURSIVE SeqsUpTo(_, _)
SeqsUpTo(S, n) ==
  IF n = 0 THEN { <<>> }
  ELSE LET shorter == SeqsUpTo(S, n - 1)
       IN  shorter \cup { Append(s, x) : s \in { t \in shorter : Len(t) = n - 1 }, x \in S }

Range(s) == { s[i] : i \in 1..Len(s) }

(***************************************************************************)
(* A where object is the ordered list of its entries (Object.keys order).  *)
(* A key is the list of the parts key.split('_') yields: <<"AND">>,        *)
(* <<"firstName", "contains">>, <<"deletedAt", "all">>, <<"books","some">>.*)
(* The value v of a combinator is a list of where objects, of a scalar     *)
(* leaf a scalar, of a relation leaf the nested where object.              *)
(***************************************************************************)
KV(k, v) == [k |-> k, v |-> v]

HasKey(where, key) == \E i \in 1..Len(where) : where[i].k = key

Get(where, key) == where[CHOOSE i \in 1..Len(where) : where[i].k = key].v

\* { ...where } minus the entries whose key satisfies Drop, order kept
RECURSIVE Without(_, _)
Without(where, drop) ==
  IF where = <<>> THEN <<>>
  ELSE IF where[1].k \in drop THEN Without(Tail(where), drop)
       ELSE <<where[1]>> \o Without(Tail(where), drop)

\* obj[key] = v: overwrites in place, or appends a new last key
Assign(where, key, v) ==
  IF HasKey(where, key)
    THEN [i \in 1..Len(where) |-> IF where[i].k = key THEN KV(key, v) ELSE where[i]]
    ELSE Append(where, KV(key, v))

parseWhereKey(key) ==
  [attr |-> key[1], operator |-> IF Len(key) > 1 THEN key[2] ELSE "eq"]

\* key.indexOf('deletedAt_') === 0
StartsWithDeletedAt_(key) == Len(key) > 1 /\ key[1] = "deletedAt"

(***************************************************************************)
(* The store.  rows[i] is the row with id i of the service's own table,    *)
(* books[b] the row with id b of the one related table, links[r] the pairs *)
(* <<row id, book id>> that relation r joins (through the foreign key or   *)
(* the junction table of r).                                               *)
(***************************************************************************)
VARIABLES rows, books, links, clock, pc, call, ret, accesses, pages

vars == <<rows, books, links, clock, pc, call, ret, accesses, pages>>

klass == "author"
foreignTableName == "book"
junctionTableName == "book_in_library"

Alias(name, n) == [name |-> name, n |-> n]

Column(alias, name) == [alias |-> alias, name |-> name]

\* createColumnMap(this.repository.metadata.columns): the attributes that are columns
columnMap ==
  { "id", "deletedAt", "firstName", "registered", "createdById", "updatedById", "deletedById" }

\* createColumnMap(relation.inverseEntityMetadata.columns)
foreignColumnMap == { "id", "deletedAt", "starRating", "name", "authorId" }

\* this.repository.metadata.relations
Relation(propertyName, relationType, isOwning) ==
  [propertyName |-> propertyName, relationType |-> relationType, isOwning |-> isOwning]

relations ==
  { Relation("books", "one-to-many", FALSE),
    Relation("libraries", "many-to-many", TRUE),
    Relation("mentor", "many-to-one", TRUE),
    Relation("bookMetadata", "one-to-one", TRUE),
    Relation("shelf", "one-to-one", FALSE),
    Relation("legacy", "one-to-any", FALSE) }

RelationNames == { r.propertyName : r \in relations }

\* `"${klass}"."${columnMap[attr]}"`: an attribute that is no column gives column "undefined"
attrToDBColumn(attr) ==
  Column(Alias(klass, 0), IF attr \in columnMap THEN attr ELSE "undefined")

Ids == 1..Len(rows)

BookIds == 1..Len(books)

Related(i, propertyName) == { b \in BookIds : <<i, b>> \in links[propertyName] }

RowValue(i, name) == IF name = "id" THEN <<i>> ELSE rows[i][name]

\* the author a book refers back to (the foreign key of the one-to-many relation)
AuthorOf(b) ==
  IF \E i \in Ids : <<i, b>> \in links["books"]
    THEN << CHOOSE i \in Ids : <<i, b>> \in links["books"] >>
    ELSE NULL

BookValue(b, name) ==
  IF b = 0 THEN NULL
  ELSE IF name = "id" THEN <<b>>
  ELSE IF name = "authorId" THEN AuthorOf(b)
  ELSE books[b][name]

(***************************************************************************)
(* The query builder (TypeORM SelectQueryBuilder) as a value: the clauses  *)
(* of this builder (wheres, havings), the parts every bracketed            *)
(* sub-builder hands on to the outermost builder (joins, groupBys,         *)
(* parameters), the paramKeyCounter and shortid supply of the call, and    *)
(* the exception thrown while building, if any.                            *)
(***************************************************************************)
createQueryBuilder ==
  [ wheres |-> <<>>, havings |-> <<>>, parameters |-> <<>>, joins |-> <<>>,
    groupBys |-> FALSE, orderBys |-> <<>>, limit |-> 0, offset |-> 0,
    counter |-> 0, shortid |-> 0, err |-> "" ]

Throw(qb, msg) == IF qb.err = "" THEN [qb EXCEPT !.err = msg] ELSE qb

andWhere(qb, condition) ==
  [qb EXCEPT !.wheres = Append(@, [type |-> "and", condition |-> condition])]

orWhere(qb, condition) ==
  [qb EXCEPT !.wheres = Append(@, [type |-> "or", condition |-> condition])]

setParameter(qb, paramKey, value) ==
  [qb EXCEPT !.parameters = (paramKey :> value) @@ @]

leftJoin(qb, table, alias, propertyName, binds) ==
  [qb EXCEPT !.joins = Append(@, [table |-> table, alias |-> alias,
                                   propertyName |-> propertyName, binds |-> binds])]

\* the operators of addQueryBuilderWhereItem
Operators == { "eq", "contains", "gt", "gte", "lt", "lte" }

Predicate(column, operator, paramKey) ==
  [operator |-> operator, column |-> column, paramKey |-> paramKey]

\* torm.addQueryBuilderWhereItem: one AND-ed predicate on a column; eq null is IS NULL
addQueryBuilderWhereItem(qb, paramKey, column, operator, value) ==
  IF qb.err # "" THEN qb
  ELSE IF operator \notin Operators THEN Throw(qb, "Can't find operator")
  ELSE IF operator = "eq" /\ value = NULL
    THEN andWhere(qb, Predicate(column, "isNull", -1))
    ELSE setParameter(andWhere(qb, Predicate(column, operator, paramKey)), paramKey, value)

(***************************************************************************)
(* RelationsManager: the relation filter resolver.                         *)
(***************************************************************************)
\* qb.createQueryBuilder(): a completely new builder; the joins, the group by and the
\* counters it is handed belong to topLevelQb and to the call
NewBuilder(qb) == [qb EXCEPT !.wheres = <<>>, !.havings = <<>>, !.parameters = <<>>]

RECURSIVE addWhereConditionKeys(_, _, _)
addWhereConditionKeys(qb, whereParameter, foreignTableAlias) ==
  IF whereParameter = <<>> \/ qb.err # "" THEN qb
  ELSE LET parsed == parseWhereKey(whereParameter[1].k)
           whereColumn == Column(foreignTableAlias,
                                 IF parsed.attr \in foreignColumnMap THEN parsed.attr
                                 ELSE "undefined")
           paramKey == qb.counter
           counted == [qb EXCEPT !.counter = @ + 1]
       IN  addWhereConditionKeys(
             addQueryBuilderWhereItem(counted, paramKey, whereColumn, parsed.operator,
                                      whereParameter[1].v),
             Tail(whereParameter), foreignTableAlias)

\* mutant: the nested keys take their names from a copy of the counter
addWhereConditionOwnCounter(qb, whereParameter, foreignTableAlias) ==
  LET added == addWhereConditionKeys(qb, whereParameter, foreignTableAlias)
  IN  IF added.err # "" THEN added
      ELSE [added EXCEPT !.groupBys = TRUE, !.counter = qb.counter]

addWhereCondition(qb, whereParameter, foreignTableAlias) ==
  LET added == addWhereConditionKeys(qb, whereParameter, foreignTableAlias)
  IN  IF added.err # "" THEN added ELSE [added EXCEPT !.groupBys = TRUE]

\* shortid.generate(): an alias no other join of the query has
common(qb, propertyName, whereParameter) ==
  LET foreignTableAlias == Alias("shortid", qb.shortid)
      joined == leftJoin([qb EXCEPT !.shortid = @ + 1], foreignTableName, foreignTableAlias,
                         propertyName, TRUE)
  IN  addWhereCondition(joined, whereParameter, foreignTableAlias)

\* andHaving(..., tmpQb.expressionMap.parameters) on parameters.qb, whose wheres stay as
\* they were; tmpQb is discarded
AndHaving(qb, tmpQb, havings) ==
  [tmpQb EXCEPT !.wheres = qb.wheres,
                !.havings = qb.havings \o havings,
                !.parameters = tmpQb.parameters @@ qb.parameters]

HavingNone(tmpQb) == [kind |-> "none", condition |-> tmpQb.wheres[1].condition]

HavingEvery(tmpQb, foreingIdColumn) ==
  [kind |-> "every", column |-> foreingIdColumn, condition |-> tmpQb.wheres[1].condition]

\* `COUNT(${foreingIdColumn}) > 1`
EveryThreshold == 1

HavingCount(foreingIdColumn) ==
  [kind |-> "count", column |-> foreingIdColumn, than |-> EveryThreshold]

Quantified(qb, tmpQb, operator, foreingIdColumn) ==
  IF tmpQb.err # "" THEN tmpQb
  ELSE IF tmpQb.wheres = <<>>
    THEN Throw(tmpQb, "TypeError: wheres[0] is undefined")
  ELSE IF operator = "none" THEN AndHaving(qb, tmpQb, << HavingNone(tmpQb) >>)
  ELSE AndHaving(qb, tmpQb, << HavingEvery(tmpQb, foreingIdColumn),
                               HavingCount(foreingIdColumn) >>)

processWhereRelationManyToOne(qb, attr, whereParameter) ==
  common(qb, attr, whereParameter)

processWhereRelationOneToMany(qb, attr, operator, whereParameter) ==
  IF operator = "some" THEN common(qb, attr, whereParameter)
  ELSE IF operator \in { "none", "every" }
    THEN LET tmpQb == common(NewBuilder(qb), attr, whereParameter)
             foreignTableAlias == tmpQb.joins[Len(tmpQb.joins)].alias
         IN  Quantified(qb, tmpQb, operator, Column(foreignTableAlias, "authorId"))
  ELSE Throw(qb, "Unknown many-to-one operator")

processWhereRelationOneToOne(qb, relation, attr, whereParameter) ==
  IF relation.isOwning THEN processWhereRelationManyToOne(qb, attr, whereParameter)
  ELSE common(qb, attr, whereParameter)

processWhereRelationManyToMany(qb, attr, operator, whereParameter) ==
  LET junction == leftJoin(qb, junctionTableName, Alias(junctionTableName, 0), attr, FALSE)
      joined == leftJoin(junction, foreignTableName, Alias(foreignTableName, 0), attr, TRUE)
      foreingIdColumn == Column(Alias(foreignTableName, 0), "id")
  IN  IF operator = "some"
        THEN addWhereCondition(joined, whereParameter, Alias(foreignTableName, 0))
      ELSE IF operator \in { "none", "every" }
        THEN Quantified(joined,
                        addWhereCondition(NewBuilder(joined), whereParameter,
                                          Alias(foreignTableName, 0)),
                        operator, foreingIdColumn)
      ELSE Throw(joined, "Unknown many-to-many operator")

\* the relation of processWhereRelation's relations.find, when there is one
IsRelation(attr) == \E r \in relations : r.propertyName = attr

processWhereRelation(qb, attr, operator, whereParameter) ==
  LET relation == CHOOSE r \in relations : r.propertyName = attr
  IN  IF relation.relationType = "one-to-many"
        THEN processWhereRelationOneToMany(qb, attr, operator, whereParameter)
      ELSE IF relation.relationType = "many-to-one"
        THEN processWhereRelationManyToOne(qb, attr, whereParameter)
      ELSE IF relation.relationType = "one-to-one"
        THEN processWhereRelationOneToOne(qb, relation, attr, whereParameter)
      ELSE IF relation.relationType = "many-to-many"
        THEN processWhereRelationManyToMany(qb, attr, operator, whereParameter)
      ELSE Throw(qb, "Unknown relation type")

(***************************************************************************)
(* buildFindQuery: the soft-delete policy and the predicate tree.          *)
(***************************************************************************)
RECURSIVE processWheres(_, _)
processWheres(qb, where) ==
  IF where = <<>> \/ qb.err # "" THEN qb
  ELSE LET parsed == parseWhereKey(where[1].k)
       IN  IF IsRelation(parsed.attr)
             THEN processWheres(
                    processWhereRelation(qb, parsed.attr, parsed.operator, where[1].v),
                    Tail(where))
             ELSE LET paramKey == qb.counter
                      counted == [qb EXCEPT !.counter = @ + 1]
                  IN  processWheres(
                        addQueryBuilderWhereItem(counted, paramKey,
                                                 attrToDBColumn(parsed.attr),
                                                 parsed.operator, where[1].v),
                        Tail(where))

\* a key whose value is a scalar (not a list of where objects, not a nested where object)
IsScalarKey(key) == ~IsRelation(key[1]) /\ key \notin { <<"AND">>, <<"OR">>, <<"NOT">> }

\* JSON.stringify(value) !== '{}': keys whose value is undefined are not serialised
JSONStringifyIsEmpty(value) ==
  \A i \in 1..Len(value) : IsScalarKey(value[i].k) /\ value[i].v = UNDEFINED

\* mutant: the joins made while the group was built stay with its sub-builder
BracketsWithOwnJoins(qb, sub, type, operator) ==
  [sub EXCEPT !.wheres = Append(qb.wheres,
                                [type |-> type,
                                 condition |-> [operator |-> operator,
                                                condition |-> sub.wheres]]),
              !.havings = qb.havings,
              !.joins = qb.joins]

\* new Brackets / new NotBrackets around the clauses of the sub-builder: only its
\* wheres reach the enclosing builder, its havings do not
Brackets(qb, sub, type, operator) ==
  [sub EXCEPT !.wheres = Append(qb.wheres,
                                [type |-> type,
                                 condition |-> [operator |-> operator,
                                                condition |-> sub.wheres]]),
              !.havings = qb.havings]

\* mutant: the entries of OR are joined with andWhere
conditionFactoryAllAnd(combinator) ==
  IF combinator = "NOT" THEN [type |-> "and", operator |-> "not"]
  ELSE [type |-> "and", operator |-> "brackets"]

\* the three conditionFactory arguments of processWhereInput
conditionFactory(combinator) ==
  IF combinator = "AND" THEN [type |-> "and", operator |-> "brackets"]
  ELSE IF combinator = "OR" THEN [type |-> "or", operator |-> "brackets"]
  ELSE [type |-> "and", operator |-> "not"]

WhereFilters(rawFilters) ==
  SelectSeq(SelectSeq(rawFilters, LAMBDA value : ~JSONStringifyIsEmpty(value)),
            LAMBDA value : Len(value) > 0)

RECURSIVE processWhereInput(_, _)
RECURSIVE forEachFilter(_, _, _)
forEachFilter(qb2, filters, combinator) ==
  IF filters = <<>> \/ qb2.err # "" THEN qb2
  ELSE LET qb3 == processWhereInput([qb2 EXCEPT !.wheres = <<>>, !.havings = <<>>],
                                    filters[1])
           factory == conditionFactory(combinator)
       IN  forEachFilter(IF qb3.err # "" THEN qb3
                         ELSE Brackets(qb2, qb3, factory.type, factory.operator),
                         Tail(filters), combinator)

handleConditions(qb, where, combinator) ==
  IF qb.err # "" \/ ~HasKey(where, <<combinator>>) THEN qb
  ELSE LET rawFilters == Get(where, <<combinator>>)
           filters == SelectSeq(rawFilters, LAMBDA value : ~JSONStringifyIsEmpty(value))
       IN  IF rawFilters = <<>> \/ filters = <<>> THEN qb
           ELSE LET qb2 == forEachFilter([qb EXCEPT !.wheres = <<>>, !.havings = <<>>],
                                         WhereFilters(rawFilters), combinator)
                IN  IF qb2.err # "" THEN qb2
                    ELSE Brackets(qb, qb2, "and", "brackets")

processWhereInput(qb, where) ==
  LET rest == Without(where, { <<"AND">>, <<"OR">>, <<"NOT">> })
  IN  processWheres(
        handleConditions(
          handleConditions(
            handleConditions(qb, where, "AND"),
            where, "OR"),
          where, "NOT"),
        rest)

\* mutant: only deletedAt_all counts as a deletedAt filter of the caller
SoftDeletePolicyOnlyAll(where) ==
  IF ~HasKey(where, <<"deletedAt", "all">>)
    THEN Assign(where, <<"deletedAt", "eq">>, NULL)
    ELSE Without(where, { <<"deletedAt", "all">> })

\* mutant: deletedAt_all is left in the where object
SoftDeletePolicyKeepsAll(where) ==
  IF ~\E i \in 1..Len(where) : StartsWithDeletedAt_(where[i].k)
    THEN Assign(where, <<"deletedAt", "eq">>, NULL)
    ELSE where

\* mutant: with deletedAt_all, every deletedAt filter of the caller is deleted
SoftDeletePolicyDropsFilters(where) ==
  IF ~\E i \in 1..Len(where) : StartsWithDeletedAt_(where[i].k)
    THEN Assign(where, <<"deletedAt", "eq">>, NULL)
  ELSE IF HasKey(where, <<"deletedAt", "all">>) /\ Get(where, <<"deletedAt", "all">>) # UNDEFINED
    THEN SelectSeq(where, LAMBDA e : ~StartsWithDeletedAt_(e.k))
  ELSE where

\* lines 811-824: the where object as buildFindQuery leaves it (it is changed in place)
SoftDeletePolicy(where) ==
  IF ~\E i \in 1..Len(where) : StartsWithDeletedAt_(where[i].k)
    THEN Assign(where, <<"deletedAt", "eq">>, NULL)
  ELSE IF HasKey(where, <<"deletedAt", "all">>) /\ Get(where, <<"deletedAt", "all">>) # UNDEFINED
    THEN Without(where, { <<"deletedAt", "all">> })
  ELSE where

\* pageOptions = [limit, offset]; orderBy a list of <<attr, direction>>
buildFindQuery(where, orderBy, pageOptions) ==
  LET qb == [createQueryBuilder EXCEPT
               !.limit = IF pageOptions.limit = 0 THEN DEFAULT_LIMIT ELSE pageOptions.limit,
               !.offset = pageOptions.offset,
               !.orderBys = [i \in 1..Len(orderBy) |->
                               [column |-> attrToDBColumn(orderBy[i][1]),
                                direction |-> orderBy[i][2]]]]
      policed == SoftDeletePolicy(where)
  IN  IF policed = <<>> THEN qb ELSE processWhereInput(qb, policed)

(***************************************************************************)
(* The store's evaluation of a built query (getMany): the left joins give  *)
(* each row one joined tuple per combination of related books (a NULL book *)
(* where a relation joins none), WHERE keeps the tuples it finds TRUE in   *)
(* SQL's three-valued logic, GROUP BY id with HAVING keeps or drops each   *)
(* row's group, ORDER BY, OFFSET and LIMIT cut the list.                   *)
(***************************************************************************)
And3(S) == IF "F" \in S THEN "F" ELSE IF "U" \in S THEN "U" ELSE "T"

Or3(S) == IF "T" \in S THEN "T" ELSE IF "U" \in S THEN "U" ELSE "F"

Not3(x) == IF x = "T" THEN "F" ELSE IF x = "F" THEN "T" ELSE "U"

Bool3(b) == IF b THEN "T" ELSE "F"

\* ILIKE '%needle%' on the character lists
Contains(value, needle) ==
  \E i \in 0..(Len(value) - Len(needle)) :
    \A j \in 1..Len(needle) : value[i + j] = needle[j]

\* a sorts strictly before b (character lists compare lexicographically, NULL last)
Less(a, b) ==
  IF a = NULL THEN FALSE
  ELSE IF b = NULL THEN TRUE
  ELSE \E n \in 1..Len(b) :
         /\ \A m \in 1..(n - 1) : m <= Len(a) /\ a[m] = b[m]
         /\ (n > Len(a) \/ a[n] < b[n])

\* a comparison of two values that are not NULL is that of the store's ordering
Compare(operator, value, param) ==
  IF operator = "isNull" THEN Bool3(value = NULL)
  ELSE IF value = NULL \/ param \in { NULL, UNDEFINED } THEN "U"
  ELSE IF operator = "eq" THEN Bool3(value = param)
  ELSE IF operator = "contains" THEN Bool3(Contains(value, param))
  ELSE IF operator = "gt" THEN Bool3(Less(param, value))
  ELSE IF operator = "gte" THEN Bool3(~Less(value, param))
  ELSE IF operator = "lt" THEN Bool3(Less(value, param))
  ELSE Bool3(~Less(param, value))

JoinOf(qb, alias) == CHOOSE j \in 1..Len(qb.joins) : qb.joins[j].alias = alias

\* a joined tuple: the row i and, per join, the book it binds (0: none)
ColumnValue(qb, column, i, binding) ==
  IF column.alias = Alias(klass, 0) THEN RowValue(i, column.name)
  ELSE BookValue(binding[JoinOf(qb, column.alias)], column.name)

Bindings(qb, i) ==
  { binding \in [1..Len(qb.joins) -> 0..Len(books)] :
      \A j \in 1..Len(qb.joins) :
        LET related == Related(i, qb.joins[j].propertyName)
        IN  IF qb.joins[j].binds /\ related # {}
              THEN binding[j] \in related
              ELSE binding[j] = 0 }

RECURSIVE EvalClauses(_, _, _, _)
EvalCondition(qb, condition, i, binding) ==
  IF condition.operator = "brackets"
    THEN EvalClauses(qb, condition.condition, i, binding)
  ELSE IF condition.operator = "not"
    THEN Not3(EvalClauses(qb, condition.condition, i, binding))
  ELSE Compare(condition.operator, ColumnValue(qb, condition.column, i, binding),
               IF condition.operator = "isNull" THEN NULL
               ELSE qb.parameters[condition.paramKey])

\* c1 AND c2 OR c3 ...: AND binds tighter than OR; no clause at all is written 1=1
EvalClauses(qb, clauses, i, binding) ==
  LET starts == { k \in 1..Len(clauses) : k = 1 \/ clauses[k].type = "or" }
      group(s) == { k \in s..Len(clauses) : \A m \in (s + 1)..k : m \notin starts }
  IN  Or3({ And3({ EvalCondition(qb, clauses[k].condition, i, binding) : k \in group(s) })
            : s \in starts } \cup (IF clauses = <<>> THEN { "T" } ELSE {}))

WherePasses(qb, i) ==
  { binding \in Bindings(qb, i) : EvalClauses(qb, qb.wheres, i, binding) = "T" }

CountWhen(qb, condition, i, group) ==
  Cardinality({ binding \in group : EvalCondition(qb, condition, i, binding) = "T" })

CountColumn(qb, column, i, group) ==
  Cardinality({ binding \in group : ColumnValue(qb, column, i, binding) # NULL })

EvalHaving(qb, having, i, group) ==
  IF having.kind = "none" THEN CountWhen(qb, having.condition, i, group) = 0
  ELSE IF having.kind = "every"
    THEN CountColumn(qb, having.column, i, group) = CountWhen(qb, having.condition, i, group)
  ELSE CountColumn(qb, having.column, i, group) > having.than

\* what the store refuses to run: a column that does not exist, an alias joined twice,
\* a column of an alias that no join brings in
ColumnsOf(qb) ==
  LET RECURSIVE cols(_)
      cols(clauses) ==
        UNION { IF clauses[k].condition.operator \in { "brackets", "not" }
                  THEN cols(clauses[k].condition.condition)
                  ELSE { clauses[k].condition.column } : k \in 1..Len(clauses) }
  IN  cols(qb.wheres) \cup { qb.orderBys[k].column : k \in 1..Len(qb.orderBys) }

HavingColumnsOf(qb) ==
  UNION { (IF qb.havings[h].kind = "none" THEN {} ELSE { qb.havings[h].column })
          \cup (IF qb.havings[h].kind = "count" THEN {}
                ELSE { qb.havings[h].condition.column })
          : h \in 1..Len(qb.havings) }

QueryFailedError(qb) ==
  \/ \E column \in ColumnsOf(qb) : column.name = "undefined"
  \/ \E j, k \in 1..Len(qb.joins) : j # k /\ qb.joins[j].alias = qb.joins[k].alias
  \/ \E column \in ColumnsOf(qb) \cup HavingColumnsOf(qb) :
       /\ column.alias # Alias(klass, 0)
       /\ \A j \in 1..Len(qb.joins) : qb.joins[j].alias # column.alias

\* the ids the query selects, before ORDER BY, OFFSET and LIMIT
Selected(qb) ==
  { i \in Ids :
      LET group == WherePasses(qb, i)
      IN  /\ group # {}
          /\ \A h \in 1..Len(qb.havings) : EvalHaving(qb, qb.havings[h], i, group) }

OrderValue(qb, k, i) == ColumnValue(qb, qb.orderBys[k].column, i, <<>>)

\* row i must come before row j under the ORDER BY keys
Before(qb, i, j) ==
  \E k \in 1..Len(qb.orderBys) :
    /\ \A m \in 1..(k - 1) : OrderValue(qb, m, i) = OrderValue(qb, m, j)
    /\ IF qb.orderBys[k].direction = "ASC"
         THEN Less(OrderValue(qb, k, i), OrderValue(qb, k, j))
         ELSE Less(OrderValue(qb, k, j), OrderValue(qb, k, i))

\* every order the store may return the selected rows in (ties are the store's choice)
Ordered(qb) ==
  LET S == Selected(qb)
      n == Cardinality(S)
  IN  { list \in [1..n -> S] :
          /\ \A a, b \in 1..n : a # b => list[a] # list[b]
          /\ \A a, b \in 1..n : a < b => ~Before(qb, list[b], list[a]) }

Min(a, b) == IF a < b THEN a ELSE b

Result(err, items) == [err |-> err, items |-> items]

\* getMany: the outcomes the store may give
getMany(qb) ==
  IF qb.err # "" THEN { Result(qb.err, <<>>) }
  ELSE IF QueryFailedError(qb) THEN { Result("QueryFailedError", <<>>) }
  ELSE { Result("", SubSeq(list, qb.offset + 1, Min(Len(list), qb.offset + qb.limit)))
         : list \in Ordered(qb) }

\* limit -1 stands for a limit that is not given
find(where, orderBy, limit, offset) ==
  getMany(buildFindQuery(where, orderBy,
                         [limit |-> IF limit = -1 THEN FindDefaultLimit ELSE limit,
                          offset |-> offset]))

(***************************************************************************)
(* The cursor / pagination engine (RelayService).  An orderBy is a list of *)
(* sorts <<column, direction>>.  A cursor is the serialised tuple of a     *)
(* row's sort-key values: each value written as its length followed by its *)
(* elements.  pageOptions = [first, after, last, before]: a number that is *)
(* not given is -1, a cursor that is not given is UNDEFINED.               *)
(***************************************************************************)
PageOptions(first, after, last, before) ==
  [first |-> first, after |-> after, last |-> last, before |-> before]

isLastBefore(pageType) == pageType.last # -1

\* x || DEFAULT_LIMIT for a number, if (x) for a cursor string
TruthyNumber(n) == n # -1 /\ n # 0

TruthyString(token) == token # UNDEFINED /\ token # <<>>

normalizeSort(orderBy) ==
  IF \E k \in 1..Len(orderBy) : orderBy[k][1] = "id" THEN orderBy
  ELSE Append(orderBy, << "id", "ASC" >>)

flipDirection(direction) == IF direction = "ASC" THEN "DESC" ELSE "ASC"

\* the order the rows are asked for; each sort leaves as `${column}_${direction}`, which
\* buildFindQuery splits again into <<column, direction>>
effectiveOrderStrings(sorts, relayPageOptions) ==
  IF isLastBefore(relayPageOptions)
    THEN [k \in 1..Len(sorts) |-> << sorts[k][1], flipDirection(sorts[k][2]) >>]
    ELSE sorts

\* the tuple of the sort-key values of row i
SortTuple(i, sorts) == [k \in 1..Len(sorts) |-> RowValue(i, sorts[k][1])]

RECURSIVE Serialise(_)
Serialise(tuple) ==
  IF tuple = <<>> THEN <<>>
  ELSE << Len(tuple[1]) >> \o tuple[1] \o Serialise(Tail(tuple))

encodeCursor(i, sorts) == Serialise(SortTuple(i, sorts))

RECURSIVE decodeCursor(_)
decodeCursor(token) ==
  IF token = <<>> THEN <<>>
  ELSE << SubSeq(token, 2, 1 + token[1]) >>
       \o decodeCursor(SubSeq(token, 2 + token[1], Len(token)))

\* strictly beyond the cursor's tuple in the order the rows are asked for:
\* OR [ {k1_gt: v1}, {k2_gt: v2, k1_eq: v1}, ... ], gt for ASC and lt for DESC
getFilters(orderBy, relayPageOptions) ==
  LET sorts == effectiveOrderStrings(normalizeSort(orderBy), relayPageOptions)
      tuple == decodeCursor(IF isLastBefore(relayPageOptions)
                              THEN relayPageOptions.before ELSE relayPageOptions.after)
      comparator(k) == IF sorts[k][2] = "ASC" THEN "gt" ELSE "lt"
      filter(k) == << KV(<< sorts[k][1], comparator(k) >>, tuple[k]) >>
                   \o [m \in 1..(k - 1) |-> KV(<< sorts[m][1], "eq" >>, tuple[m])]
  IN  << KV(<<"OR">>, [k \in 1..Len(sorts) |-> filter(k)]) >>

\* opposite: the flag against the direction of travel, which nothing determines
getPageInfo(rawData, sorts, relayPageOptions, opposite) ==
  LET limit == IF isLastBefore(relayPageOptions)
                 THEN relayPageOptions.last ELSE relayPageOptions.first
      further == Len(rawData) > limit
      n == Min(Len(rawData), limit)
  IN  [ hasNextPage |-> IF isLastBefore(relayPageOptions) THEN opposite ELSE further,
        hasPreviousPage |-> IF isLastBefore(relayPageOptions) THEN further ELSE opposite,
        startCursor |-> IF n = 0 THEN <<>> ELSE encodeCursor(rawData[1], sorts),
        endCursor |-> IF n = 0 THEN <<>> ELSE encodeCursor(rawData[n], sorts) ]

(***************************************************************************)
(* findConnection.                                                         *)
(***************************************************************************)
\* getCount: the number of rows the query selects, whatever its limit and offset
getCount(qb) ==
  IF qb.err # "" THEN [err |-> qb.err, count |-> 0]
  ELSE IF QueryFailedError(qb) THEN [err |-> "QueryFailedError", count |-> 0]
  ELSE [err |-> "", count |-> Cardinality(Selected(qb))]

limitOf(pageOptions) ==
  IF isLastBefore(pageOptions)
    THEN IF TruthyNumber(pageOptions.last) THEN pageOptions.last ELSE DEFAULT_LIMIT
    ELSE IF TruthyNumber(pageOptions.first) THEN pageOptions.first ELSE DEFAULT_LIMIT

cursorOf(pageOptions) ==
  IF isLastBefore(pageOptions) THEN pageOptions.before ELSE pageOptions.after

relayPageOptionsOf(pageOptions) ==
  IF isLastBefore(pageOptions)
    THEN PageOptions(-1, UNDEFINED, limitOf(pageOptions), pageOptions.before)
    ELSE PageOptions(limitOf(pageOptions), pageOptions.after, -1, UNDEFINED)

whereCombined(whereUserInput, orderBy, pageOptions) ==
  LET whereFromCursor ==
        IF TruthyString(cursorOf(pageOptions))
          THEN getFilters(orderBy, relayPageOptionsOf(pageOptions))
          ELSE <<>>
  IN  << KV(<<"AND">>, << whereUserInput, whereFromCursor >>) >>

\* the query of the page: one row more than the page holds
pageQuery(whereUserInput, orderBy, pageOptions) ==
  buildFindQuery(whereCombined(whereUserInput, orderBy, pageOptions),
                 effectiveOrderStrings(normalizeSort(orderBy), relayPageOptionsOf(pageOptions)),
                 [limit |-> limitOf(pageOptions) + 1, offset |-> 0])

\* mutant: the count is taken over the filter of the page
countQueryOfPage(whereUserInput, orderBy, pageOptions) ==
  buildFindQuery(whereCombined(whereUserInput, orderBy, pageOptions), <<>>,
                 [limit |-> 0, offset |-> 0])

\* this.buildFindQuery(whereUserInput): the caller's filter and nothing else
countQuery(whereUserInput, orderBy, pageOptions) ==
  buildFindQuery(whereUserInput, <<>>, [limit |-> 0, offset |-> 0])

\* mutant: the row fetched beyond the page is kept
returnDataAll(rawData, limit) == rawData

returnData(rawData, limit) ==
  IF Len(rawData) > limit THEN SubSeq(rawData, 1, limit) ELSE rawData

\* mutant: the slice is turned round when paging backward
edgesReReversed(data, sorts, pageOptions) ==
  [k \in 1..Len(data) |->
     LET item == IF isLastBefore(pageOptions) THEN data[Len(data) + 1 - k] ELSE data[k]
     IN  [node |-> item, cursor |-> encodeCursor(item, sorts)]]

\* mutant: every edge carries the cursor of the first row
edgesFirstCursor(data, sorts, pageOptions) ==
  [k \in 1..Len(data) |-> [node |-> data[k], cursor |-> encodeCursor(data[1], sorts)]]

\* returnData.map(item => ({ node: item, cursor: encodeCursor(item, sorts) }))
edges(data, sorts, pageOptions) ==
  [k \in 1..Len(data) |-> [node |-> data[k], cursor |-> encodeCursor(data[k], sorts)]]

NoPageInfo ==
  [hasNextPage |-> FALSE, hasPreviousPage |-> FALSE, startCursor |-> <<>>, endCursor |-> <<>>]

\* a ConnectionResult, or the error the call is rejected with; rawData is what the page
\* query fetched, totalCount -1 a totalCount that is not part of the result
ConnectionResult(err, rawData, connectionEdges, pageInfo, totalCount) ==
  [ err |-> err, rawData |-> rawData, edges |-> connectionEdges,
    items |-> [k \in 1..Len(connectionEdges) |-> connectionEdges[k].node],
    pageInfo |-> pageInfo, totalCount |-> totalCount ]

Rejected(err) == ConnectionResult(err, <<>>, <<>>, NoPageInfo, -1)

\* fields = [totalCount |-> whether the caller asks for it]
findConnection(whereUserInput, orderBy, pageOptions, fields) ==
  LET limit == limitOf(pageOptions)
      relayPageOptions == relayPageOptionsOf(pageOptions)
      sorts == normalizeSort(orderBy)
      qb == pageQuery(whereUserInput, orderBy, pageOptions)
      counted == IF fields.totalCount
                   THEN getCount(countQuery(whereUserInput, orderBy, pageOptions))
                   ELSE [err |-> "", count |-> -1]
  IN  IF qb.err # "" THEN { Rejected(qb.err) }
      ELSE IF counted.err # "" THEN { Rejected(counted.err) }
      ELSE { IF r.err # "" THEN Rejected(r.err)
             ELSE ConnectionResult("", r.items,
                                   edges(returnData(r.items, limit), sorts, pageOptions),
                                   getPageInfo(r.items, sorts, relayPageOptions, opposite),
                                   counted.count)
             : r \in getMany(qb), opposite \in BOOLEAN }

(***************************************************************************)
(* The record facade: findOne, create, update, delete.                     *)
(***************************************************************************)
Row(deletedAt, firstName, registered, createdById, updatedById, deletedById) ==
  [ deletedAt |-> deletedAt, firstName |-> firstName, registered |-> registered,
    createdById |-> createdById, updatedById |-> updatedById, deletedById |-> deletedById ]

\* findOne without the check for several rows
findOneFirstFound(where) ==
  { IF r.err # "" THEN r
    ELSE IF Len(r.items) = 0 THEN Result("Unable to find", <<>>)
    ELSE Result("", << r.items[1] >>)
    : r \in find(where, <<>>, -1, 0) }

\* findOne: the outcomes of find, with none and several rows turned into errors
findOne(where) ==
  { IF r.err # "" THEN r
    ELSE IF Len(r.items) = 0 THEN Result("Unable to find", <<>>)
    ELSE IF Len(r.items) > 1 THEN Result("Found several", <<>>)
    ELSE Result("", << r.items[1] >>)
    : r \in find(where, <<>>, -1, 0) }

\* class-validator's validate(entity, { skipMissingProperties: true }): a firstName that
\* is present must not be empty
validate(entity) ==
  IF HasKey(entity, <<"firstName">>) /\ Get(entity, <<"firstName">>) = <<>>
    THEN << "firstName" >>
    ELSE <<>>

\* the value the entity gives a column, or the value the row has
Merged(entity, name, old) == IF HasKey(entity, <<name>>) THEN Get(entity, <<name>>) ELSE old

\* manager.save of an entity: an update of the row with the entity's id when there is
\* one, an insert otherwise
save(entity, i) ==
  LET old == IF i \in Ids THEN rows[i] ELSE Row(NULL, <<>>, NULL, NULL, NULL, NULL)
      row == [name \in DOMAIN old |-> Merged(entity, name, old[name])]
  IN  IF i \in Ids THEN [rows EXCEPT ![i] = row] ELSE Append(rows, row)

\* TypeORM's findOneByOrFail(FindOptionsWhere): columns compared for equality, a key
\* whose value is null or undefined is skipped, the first row found is the answer
FindOptionsWhere(where) ==
  { i \in Ids : \A k \in 1..Len(where) :
      where[k].v \in { NULL, UNDEFINED } \/ RowValue(i, where[k].k[1]) = where[k].v }

Call(op, where, data, userId, options) ==
  [op |-> op, where |-> where, data |-> data, userId |-> userId, options |-> options]

\* BaseOptions: the manager a caller hands in, if any
Options(manager) == [manager |-> manager]

NoOptions == Options("undefined")

\* options?.manager ?? this.manager
ManagerOf(options) ==
  IF options.manager = "undefined" THEN "this.manager" ELSE options.manager

\* one round trip to the store, and the manager it went through
Access(operation, manager) == [operation |-> operation, manager |-> manager]

\* a find call; limit -1 stands for a limit that is not given
FindCall(where, orderBy, limit, offset, options) ==
  [ op |-> "find", where |-> where, orderBy |-> orderBy, limit |-> limit,
    offset |-> offset, options |-> options ]

Find(where, orderBy, limit, offset, options) ==
  /\ pc = "idle"
  /\ \E r \in find(where, orderBy, limit, offset) :
       /\ ret' = r
       /\ call' = FindCall(where, orderBy, limit, offset, options)
  /\ accesses' = << Access("getMany", ManagerOf(options)) >>
  /\ pc' = "done"
  /\ UNCHANGED <<rows, books, links, clock, pages>>

FindOne(where, options) ==
  /\ pc = "idle"
  /\ \E r \in findOne(where) :
       /\ ret' = r
       /\ call' = Call("findOne", where, <<>>, NULL, options)
  /\ accesses' = << Access("getMany", ManagerOf(options)) >>
  /\ pc' = "done"
  /\ UNCHANGED <<rows, books, links, clock, pages>>

Create(data, userId, options) ==
  /\ pc = "idle"
  /\ Len(rows) < MaxRows
  /\ LET entity == Assign(data, <<"createdById">>, userId)
     IN  IF validate(entity) # <<>>
           THEN /\ ret' = Result("ArgumentValidationError", <<>>)
                /\ rows' = rows
                /\ accesses' = <<>>
           ELSE /\ ret' = Result("", << Len(rows) + 1 >>)
                /\ rows' = save(entity, Len(rows) + 1)
                /\ accesses' = << Access("save", ManagerOf(options)) >>
  /\ call' = Call("create", <<>>, data, userId, options)
  /\ pc' = "done"
  /\ UNCHANGED <<books, links, clock, pages>>

\* createMany without the validation loop
createManyEntitiesUnchecked(data, userId) ==
  [ results |-> [k \in 1..Len(data) |-> Assign(data[k], <<"createdById">>, userId)],
    errors |-> <<>> ]

\* createMany up to the save: the entities with their creator, and the errors of the
\* first entity that fails validation
createManyEntities(data, userId) ==
  LET results == [k \in 1..Len(data) |-> Assign(data[k], <<"createdById">>, userId)]
      failing == { k \in 1..Len(results) : validate(results[k]) # <<>> }
  IN  [ results |-> results,
        errors |-> IF failing = {} THEN <<>>
                   ELSE validate(results[CHOOSE k \in failing : \A m \in failing : k <= m]) ]

\* data is the list of the entities to create
CreateMany(data, userId, options) ==
  /\ pc = "idle"
  /\ Len(rows) + Len(data) <= MaxRows
  /\ LET made == createManyEntities(data, userId)
     IN  IF made.errors # <<>>
           THEN /\ ret' = Result("ArgumentValidationError", <<>>)
                /\ rows' = rows
                /\ accesses' = <<>>
           ELSE /\ ret' = Result("", [k \in 1..Len(data) |-> Len(rows) + k])
                /\ rows' = rows \o [k \in 1..Len(data) |->
                                      save(made.results[k], Len(rows) + 1)[Len(rows) + 1]]
                /\ accesses' = << Access("save", ManagerOf(options)) >>
  /\ call' = Call("createMany", <<>>, data, userId, options)
  /\ pc' = "done"
  /\ UNCHANGED <<books, links, clock, pages>>

\* the entity read back: the stored row with its id
Entity(stored, i) == [id |-> <<i>>, row |-> stored[i]]

\* update's merge with data applied last, so that data can overwrite the id
updateEntityDataLast(data, id, userId) ==
  LET mergeData == << KV(<<"id">>, id), KV(<<"updatedById">>, userId) >>
  IN  [k \in 1..Len(mergeData) |->
         IF HasKey(data, mergeData[k].k) THEN KV(mergeData[k].k, Get(data, mergeData[k].k))
         ELSE mergeData[k]]
      \o Without(data, { <<"id">>, <<"updatedById">> })

\* manager.merge(entityClass, new entityClass(), data, mergeData): mergeData is applied
\* after data
updateEntity(data, id, userId) ==
  LET mergeData == << KV(<<"id">>, id), KV(<<"updatedById">>, userId) >>
  IN  Assign(Assign(data, mergeData[1].k, mergeData[1].v), mergeData[2].k, mergeData[2].v)

Update(data, where, userId, options) ==
  /\ pc = "idle"
  /\ \E found \in findOne(where) :
       IF found.err # ""
         THEN /\ ret' = found
              /\ rows' = rows
              /\ accesses' = << Access("getMany", ManagerOf(NoOptions)) >>
         ELSE LET entity == updateEntity(data, << found.items[1] >>, userId)
                  id == Get(entity, <<"id">>)[1]
              IN  IF validate(entity) # <<>>
                    THEN /\ ret' = Result("ArgumentValidationError", <<>>)
                         /\ rows' = rows
                         /\ accesses' = << Access("getMany", ManagerOf(NoOptions)) >>
                    ELSE /\ rows' = save(Without(entity, { <<"id">> }), id)
                         /\ ret' = [ err |-> "", items |-> << id >>,
                                     entity |-> Entity(rows', id) ]
                         /\ accesses' = << Access("getMany", ManagerOf(NoOptions)),
                                           Access("save", ManagerOf(options)),
                                           Access("findOneByOrFail", ManagerOf(options)) >>
  /\ call' = Call("update", where, data, userId, options)
  /\ pc' = "done"
  /\ UNCHANGED <<books, links, clock, pages>>

Delete(where, userId, options) ==
  /\ pc = "idle"
  /\ clock < MaxClock
  /\ LET data == << KV(<<"deletedAt">>, << clock + 1 >>), KV(<<"deletedById">>, userId) >>
         whereNotDeleted == Assign(where, <<"deletedAt">>, NULL)
     IN  IF FindOptionsWhere(whereNotDeleted) = {}
           THEN /\ ret' = Result("EntityNotFoundError", <<>>)
                /\ rows' = rows
                /\ clock' = clock
                /\ accesses' = << Access("findOneByOrFail", ManagerOf(options)) >>
           ELSE \E found \in FindOptionsWhere(whereNotDeleted) :
                  /\ rows' = save(data, found)
                  /\ ret' = Result("", << found >>)
                  /\ clock' = clock + 1
                  /\ accesses' = << Access("findOneByOrFail", ManagerOf(options)),
                                    Access("save", ManagerOf(options)) >>
  /\ call' = Call("delete", where, <<>>, userId, options)
  /\ pc' = "done"
  /\ UNCHANGED <<books, links, pages>>

\* a findConnection call: the count query, when asked for, goes through this.manager,
\* the page query through the manager of the options
ConnectionCall(where, orderBy, pageOptions, fields, options) ==
  [ op |-> "findConnection", where |-> where, orderBy |-> orderBy,
    pageOptions |-> pageOptions, fields |-> fields, options |-> options ]

ConnectionAccesses(fields, options) ==
  (IF fields.totalCount THEN << Access("getCount", ManagerOf(NoOptions)) >> ELSE <<>>)
  \o << Access("getMany", ManagerOf(options)) >>

FindConnection(where, orderBy, pageOptions, fields, options) ==
  /\ pc = "idle"
  /\ \E r \in findConnection(where, orderBy, pageOptions, fields) : ret' = r
  /\ call' = ConnectionCall(where, orderBy, pageOptions, fields, options)
  /\ accesses' = ConnectionAccesses(fields, options)
  /\ pc' = "done"
  /\ UNCHANGED <<rows, books, links, clock, pages>>

\* the page options of the follow-up request: the same size, beyond the given cursor
Beyond(pageOptions, cursor) ==
  IF isLastBefore(pageOptions)
    THEN [pageOptions EXCEPT !.before = cursor]
    ELSE [pageOptions EXCEPT !.after = cursor]

\* the caller keeps the page and asks for the one beyond its endCursor
FetchNextPage ==
  /\ pc = "done"
  /\ call.op = "findConnection"
  /\ ret.err = ""
  /\ ret.edges # <<>>
  /\ Len(pages) < MaxPages
  /\ LET pageOptions == Beyond(call.pageOptions, ret.pageInfo.endCursor)
     IN  /\ \E r \in findConnection(call.where, call.orderBy, pageOptions, call.fields) :
               ret' = r
         /\ call' = [call EXCEPT !.pageOptions = pageOptions]
  /\ pages' = Append(pages, [items |-> ret.items, totalCount |-> ret.totalCount])
  /\ accesses' = ConnectionAccesses(call.fields, call.options)
  /\ UNCHANGED <<rows, books, links, clock, pc>>

\* the caller takes the outcome; the service is ready for the next call
Return ==
  /\ pc = "done"
  /\ pc' = "idle"
  /\ call' = Call("none", <<>>, <<>>, NULL, NoOptions)
  /\ ret' = Result("", <<>>)
  /\ accesses' = <<>>
  /\ pages' = <<>>
  /\ UNCHANGED <<rows, books, links, clock>>

(***************************************************************************)
(* The calls made.  Spec: the facade on a store that starts empty.         *)
(* SpecFind: find with composed scalar filters on any small store.         *)
(* SpecRel: find with relation filters on any small set of related rows.   *)
(* SpecTree: find with empty entries and nested relation filters.          *)
(* SpecPage: findConnection, page after page, on any small store.          *)
(***************************************************************************)
NoLinks == [r \in RelationNames |-> {}]

Idle ==
  /\ pc = "idle"
  /\ call = Call("none", <<>>, <<>>, NULL, NoOptions)
  /\ ret = Result("", <<>>)
  /\ accesses = <<>>
  /\ pages = <<>>

Init ==
  /\ rows = <<>>
  /\ books = <<>>
  /\ links = NoLinks
  /\ clock = 0
  /\ Idle

IdWheres == { << KV(<<"id">>, <<i>>) >> : i \in 1..MaxRows }

FacadeWheres ==
  IdWheres \cup
  { <<>>,
    << KV(<<"firstName", "eq">>, <<1>>) >>,
    << KV(<<"deletedAt", "all">>, <<1>>) >>,
    << KV(<<"deletedAt", "gt">>, <<0>>) >> }

CreateData == { << KV(<<"firstName">>, v) >> : v \in { <<1>>, <<2>>, <<>> } }

\* batches: valid ones, one whose second entity is invalid, one that names a creator
CreateManyData ==
  { << << KV(<<"firstName">>, <<1>>) >>, << KV(<<"firstName">>, <<2>>) >> >>,
    << << KV(<<"firstName">>, <<1>>) >>, << KV(<<"firstName">>, <<>>) >> >>,
    << << KV(<<"firstName">>, <<2>>), KV(<<"createdById">>, <<3>>) >> >> }

UpdateData ==
  { << KV(<<"firstName">>, <<2>>) >>,
    << KV(<<"firstName">>, <<>>) >>,
    << KV(<<"registered">>, <<1>>), KV(<<"id">>, <<1>>) >> }

DeleteWheres == IdWheres \cup { <<>>, << KV(<<"firstName">>, <<1>>) >> }

\* a call without options, and a call inside a caller's transaction
FacadeOptions == { NoOptions, Options("transactionManager") }

Next ==
  \/ \E where \in FacadeWheres, options \in FacadeOptions : Find(where, <<>>, -1, 0, options)
  \/ \E where \in FacadeWheres, options \in FacadeOptions : FindOne(where, options)
  \/ \E data \in CreateData, options \in FacadeOptions : Create(data, <<1>>, options)
  \/ \E data \in CreateManyData, options \in FacadeOptions : CreateMany(data, <<1>>, options)
  \/ \E data \in UpdateData, where \in FacadeWheres, options \in FacadeOptions :
       Update(data, where, <<2>>, options)
  \/ \E where \in DeleteWheres, options \in FacadeOptions : Delete(where, <<2>>, options)
  \/ Return

Spec == Init /\ [][Next]_vars

\* ---- SpecFind ------------------------------------------------------------
StoredRows ==
  { Row(deletedAt, firstName, registered, <<1>>, NULL,
        IF deletedAt = NULL THEN NULL ELSE <<2>>)
    : deletedAt \in DeletedAts, firstName \in Names, registered \in Registereds }

InitFind ==
  /\ rows \in SeqsUpTo(StoredRows, MaxRows)
  /\ books = <<>>
  /\ links = NoLinks
  /\ clock = 0
  /\ Idle

firstName_contains(v) == KV(<<"firstName", "contains">>, v)

registered_eq(v) == KV(<<"registered", "eq">>, v)

deletedAt_eq(v) == KV(<<"deletedAt", "eq">>, v)

deletedAt_all(v) == KV(<<"deletedAt", "all">>, v)

\* the where objects that are entries of AND, OR and NOT
Entries ==
  [ empty |-> <<>>,
    A |-> << firstName_contains(<<1>>) >>,
    B |-> << firstName_contains(<<2>>) >>,
    R |-> << registered_eq(<<1>>) >>,
    D |-> << deletedAt_eq(<<1>>) >>,
    AR |-> << firstName_contains(<<1>>), registered_eq(<<1>>) >>,
    notR |-> << KV(<<"NOT">>, << << registered_eq(<<1>>) >> >>) >>,
    AorR |-> << KV(<<"OR">>, << << firstName_contains(<<1>>) >>,
                                << registered_eq(<<1>>) >> >>) >> ]

EntryLists ==
  { << Entries.A >>, << Entries.R, Entries.notR >>, << Entries.AorR, Entries.D >>,
    << Entries.empty, Entries.B >> }

\* no combinator, or the combinator with one of the entry lists
Combinator(name) == { <<>> } \cup { << KV(<<name>>, list) >> : list \in EntryLists }

LeafLists ==
  { <<>>,
    << firstName_contains(<<2>>) >>,
    << KV(<<"registered">>, <<1>>) >>,
    << deletedAt_eq(NULL) >>,
    << deletedAt_eq(<<1>>), registered_eq(<<1>>) >>,
    << KV(<<"deletedAt", "gt">>, <<0>>) >>,
    << deletedAt_all(<<1>>) >>,
    << firstName_contains(<<1>>), deletedAt_all(<<0>>) >>,
    << deletedAt_all(UNDEFINED) >>,
    << deletedAt_all(<<1>>), deletedAt_eq(<<1>>) >>,
    << KV(<<"deletedAt">>, <<1>>) >> }

ScalarWheres ==
  LeafLists \cup
  { a \o o \o n \o leaves :
      a \in Combinator("AND"), o \in Combinator("OR"), n \in Combinator("NOT"),
      leaves \in { <<>>, << deletedAt_all(<<1>>), registered_eq(<<1>>) >> } }

NextFind ==
  \/ \E where \in ScalarWheres : Find(where, <<>>, -1, 0, NoOptions)
  \/ Return

SpecFind == InitFind /\ [][NextFind]_vars

\* ---- SpecRel -------------------------------------------------------------
Book(starRating, name) == [deletedAt |-> NULL, starRating |-> starRating, name |-> name]

StoredBooks == { Book(<<5>>, <<1>>), Book(<<5>>, <<2>>), Book(<<1>>, <<1>>) }

RelRows ==
  { Row(deletedAt, <<1>>, NULL, <<1>>, NULL, IF deletedAt = NULL THEN NULL ELSE <<2>>)
    : deletedAt \in DeletedAts }

\* the pairs a relation of the given type can hold: a book has one author at most, a
\* row has one mentor at most, a junction table holds any pairs
LinksOf(relationType) ==
  { L \in SUBSET (Ids \X BookIds) :
      /\ relationType = "one-to-many" =>
           \A p, q \in L : p[2] = q[2] => p = q
      /\ relationType = "many-to-one" =>
           \A p, q \in L : p[1] = q[1] => p = q }

InitRel ==
  /\ rows \in SeqsUpTo(RelRows, MaxRows)
  /\ books \in SeqsUpTo(StoredBooks, MaxBooks)
  /\ \E r \in relations :
       /\ r.propertyName \in { "books", "libraries", "mentor" }
       /\ \E L \in LinksOf(r.relationType) : links = [NoLinks EXCEPT ![r.propertyName] = L]
  /\ clock = 0
  /\ Idle

starRating_eq(v) == KV(<<"starRating", "eq">>, v)

name_eq(v) == KV(<<"name", "eq">>, v)

\* the nested filters of a relation filter
NestedFilters ==
  { <<>>,
    << starRating_eq(<<5>>) >>,
    << deletedAt_eq(NULL) >>,
    << starRating_eq(<<5>>), name_eq(<<1>>) >> }

Quantifiers == { "some", "none", "every" }

ToMany == { "books", "libraries" }

RelationWheres ==
  { << KV(<<attr, operator>>, F) >> :
      attr \in ToMany, operator \in Quantifiers, F \in NestedFilters }
  \cup
  { << KV(key, << starRating_eq(<<5>>) >>) >> :
      key \in { <<"books">>, <<"books", "any">>, <<"libraries", "any">>,
                <<"mentor">>, <<"mentor", "any">>, <<"bookMetadata", "any">>,
                <<"shelf", "any">>, <<"legacy", "some">>, <<"legacy">> } }

NextRel ==
  \/ \E where \in RelationWheres : Find(where, <<>>, -1, 0, NoOptions)
  \/ Return

SpecRel == InitRel /\ [][NextRel]_vars

\* ---- SpecTree ------------------------------------------------------------
TreeRows ==
  { Row(NULL, firstName, NULL, <<1>>, NULL, NULL) : firstName \in { <<1>>, <<2>> } }

InitTree ==
  /\ rows \in SeqsUpTo(TreeRows, MaxRows)
  /\ books \in SeqsUpTo(StoredBooks, MaxBooks)
  /\ \E r \in relations :
       /\ r.propertyName \in ToMany
       /\ \E L \in LinksOf(r.relationType) : links = [NoLinks EXCEPT ![r.propertyName] = L]
  /\ clock = 0
  /\ Idle

AND(list) == KV(<<"AND">>, list)

OR(list) == KV(<<"OR">>, list)

NOT(list) == KV(<<"NOT">>, list)

Rated5 == << starRating_eq(<<5>>) >>

Named1 == << name_eq(<<1>>) >>

\* entries that are empty, alone or beside others, and entries that hold nothing but
\* combinators of empty entries
EmptyEntryWheres ==
  { << OR(<< <<>>, << firstName_contains(<<2>>) >> >>) >>,
    << AND(<< <<>>, <<>> >>), firstName_contains(<<2>>) >>,
    << NOT(<< <<>> >>) >>,
    << AND(<< << KV(<<"firstName", "eq">>, UNDEFINED) >>, << firstName_contains(<<2>>) >> >>) >>,
    << OR(<< << AND(<< <<>> >>) >>, << firstName_contains(<<2>>) >> >>) >>,
    << NOT(<< << OR(<< <<>> >>) >> >>) >> }

\* the same attribute and operator again and again, relation filters at every depth, a
\* relation filtered twice
NestedRelationWheres ==
  { << OR(<< << firstName_contains(<<1>>) >>, << firstName_contains(<<2>>) >> >>),
       firstName_contains(<<1>>) >>,
    << KV(<<"books", "some">>, Rated5 \o Named1), firstName_contains(<<1>>) >>,
    << AND(<< << KV(<<"books", "some">>, Rated5) >>,
              << OR(<< << KV(<<"books", "some">>, Named1) >>,
                       << firstName_contains(<<2>>) >> >>) >> >>) >>,
    << NOT(<< << KV(<<"libraries", "some">>, Rated5) >> >>) >>,
    << KV(<<"books", "some">>, Rated5), KV(<<"books", "none">>, Named1) >>,
    << KV(<<"libraries", "some">>, Rated5), KV(<<"libraries", "none">>, Named1) >>,
    << OR(<< << KV(<<"libraries", "some">>, Rated5) >>,
             << KV(<<"libraries", "some">>, Named1) >> >>) >> }

\* a none or every filter at the top and inside each combinator
NestedQuantifierWheres ==
  { << KV(<<attr, operator>>, Rated5) >> :
      attr \in ToMany, operator \in { "none", "every" } }
  \cup
  { << KV(<<combinator>>, << << KV(<<attr, operator>>, Rated5) >> >>) >> :
      combinator \in { "AND", "OR", "NOT" }, attr \in ToMany,
      operator \in { "none", "every" } }

TreeWheres == EmptyEntryWheres \cup NestedRelationWheres \cup NestedQuantifierWheres

NextTree ==
  \/ \E where \in TreeWheres : Find(where, <<>>, -1, 0, NoOptions)
  \/ Return

SpecTree == InitTree /\ [][NextTree]_vars

\* ---- SpecPage ------------------------------------------------------------
\* live rows that share a firstName or a registered, one of them without a registered,
\* and one soft-deleted row
PageRows ==
  { Row(NULL, <<2>>, NULL, <<1>>, NULL, NULL),
    Row(NULL, <<2>>, <<1>>, <<1>>, NULL, NULL),
    Row(NULL, <<1, 2>>, <<1>>, <<1>>, NULL, NULL),
    Row(<<1>>, <<2>>, <<1>>, <<1>>, NULL, <<2>>) }

InitPage ==
  /\ rows \in SeqsUpTo(PageRows, MaxPageRows)
  /\ books = <<>>
  /\ links = NoLinks
  /\ clock = 0
  /\ Idle

PageWheres ==
  { <<>>,
    << KV(<<"registered", "eq">>, <<1>>) >>,
    << KV(<<"deletedAt", "all">>, <<1>>) >>,
    << KV(<<"deletedAt", "gt">>, <<0>>) >> }

PageOrderBys ==
  { <<>>,
    << << "firstName", "ASC" >> >>,
    << << "registered", "ASC" >>, << "firstName", "DESC" >> >>,
    << << "id", "DESC" >> >> }

\* first 1, first 2, no size at all, first 0; last 1, last 2, last 0
FirstPages ==
  { PageOptions(first, UNDEFINED, -1, UNDEFINED) : first \in { -1, 0, 1, 2 } }
  \cup { PageOptions(-1, UNDEFINED, last, UNDEFINED) : last \in { 0, 1, 2 } }

PageFields == { [totalCount |-> TRUE], [totalCount |-> FALSE] }

\* no limit at all, limit 0, limit 1, limit 2
FindLimits == { -1, 0, 1, 2 }

NextPage ==
  \/ \E where \in PageWheres, limit \in FindLimits :
       Find(where, << << "id", "ASC" >> >>, limit, 0, NoOptions)
  \/ \E where \in PageWheres, orderBy \in PageOrderBys, pageOptions \in FirstPages,
        fields \in PageFields :
       FindConnection(where, orderBy, pageOptions, fields, NoOptions)
  \/ FetchNextPage
  \/ Return

SpecPage == InitPage /\ [][NextPage]_vars

\* ---- SpecDelete ----------------------------------------------------------
\* delete calls in flight together: a call runs to its first await (the lookup), the
\* store answers the lookup, and the store performs the save; calls interleave at
\* these round-trips. pc, call, ret and accesses hold one entry per caller.
MaxCallers == 2

Callers == 1..MaxCallers

InitDelete ==
  /\ rows \in SeqsUpTo(TreeRows, MaxRows)
  /\ books = <<>>
  /\ links = NoLinks
  /\ clock = 0
  /\ pc = [p \in Callers |-> "idle"]
  /\ call = [p \in Callers |-> Call("none", <<>>, <<>>, NULL, NoOptions)]
  /\ ret = [p \in Callers |-> Result("", <<>>)]
  /\ accesses = [p \in Callers |-> <<>>]
  /\ pages = <<>>

\* the call up to its first await: data holds the time of the call
DeleteCall(p, where, userId) ==
  /\ pc[p] = "idle"
  /\ clock < MaxClock
  /\ clock' = clock + 1
  /\ LET data == << KV(<<"deletedAt">>, << clock + 1 >>), KV(<<"deletedById">>, userId) >>
     IN  call' = [call EXCEPT ![p] = Call("delete", where, data, userId, NoOptions)]
  /\ pc' = [pc EXCEPT ![p] = "lookup"]
  /\ UNCHANGED <<rows, books, links, ret, accesses, pages>>

\* manager.findOneByOrFail(entityClass, whereNotDeleted) answered by the store
DeleteLookup(p) ==
  /\ pc[p] = "lookup"
  /\ LET whereNotDeleted == Assign(call[p].where, <<"deletedAt">>, NULL)
     IN  IF FindOptionsWhere(whereNotDeleted) = {}
           THEN /\ ret' = [ret EXCEPT ![p] = Result("EntityNotFoundError", <<>>)]
                /\ pc' = [pc EXCEPT ![p] = "done"]
           ELSE \E found \in FindOptionsWhere(whereNotDeleted) :
                  /\ ret' = [ret EXCEPT ![p] = Result("", << found >>)]
                  /\ pc' = [pc EXCEPT ![p] = "save"]
  /\ accesses' = [accesses EXCEPT ![p] =
                    << Access("findOneByOrFail", ManagerOf(call[p].options)) >>]
  /\ UNCHANGED <<rows, books, links, clock, call, pages>>

\* manager.save(entity) performed by the store, then return { id: found.id }
DeleteSave(p) ==
  /\ pc[p] = "save"
  /\ rows' = save(call[p].data, ret[p].items[1])
  /\ pc' = [pc EXCEPT ![p] = "done"]
  /\ accesses' = [accesses EXCEPT ![p] =
                    Append(@, Access("save", ManagerOf(call[p].options)))]
  /\ UNCHANGED <<books, links, clock, call, ret, pages>>

NextDelete ==
  \/ \E p \in Callers, where \in DeleteWheres, userId \in { <<1>>, <<2>> } :
       DeleteCall(p, where, userId)
  \/ \E p \in Callers : DeleteLookup(p)
  \/ \E p \in Callers : DeleteSave(p)

SpecDelete == InitDelete /\ [][NextDelete]_vars

(***************************************************************************)
(* Properties of find: the soft-delete policy (SpecFind).                  *)
(***************************************************************************)
FindDone == pc = "done" /\ call.op = "find"

\* the truth value of the leaf filter <attribute>_<operator>: v on a column value
Leaf(operator, value, v) ==
  Compare(IF operator = "eq" /\ v = NULL THEN "isNull" ELSE operator, value, v)

Returned == Range(ret.items)

\* the query find builds for the where object of the call
BuiltQuery == buildFindQuery(call.where, <<>>, [limit |-> FindDefaultLimit, offset |-> 0])

NoDeletedAtKey(where) == ~\E k \in 1..Len(where) : StartsWithDeletedAt_(where[k].k)

IsDeletedAtNull(entry) ==
  /\ IsScalarKey(entry.k)
  /\ parseWhereKey(entry.k) = [attr |-> "deletedAt", operator |-> "eq"]
  /\ entry.v = NULL

\* the top-level conjuncts "deletedAt IS NULL" of the query that the caller did not write
ImplicitFilters(qb, where) ==
  Cardinality({ k \in 1..Len(qb.wheres) :
                  qb.wheres[k].condition =
                    Predicate(attrToDBColumn("deletedAt"), "isNull", -1) })
  - Cardinality({ k \in 1..Len(where) : IsDeletedAtNull(where[k]) })

ExplicitDeletedAtFilters(where) ==
  { k \in 1..Len(where) :
      StartsWithDeletedAt_(where[k].k) /\ where[k].k # <<"deletedAt", "all">> }

C1_WitnessExplicit ==
  /\ FindDone /\ ret.err = "" /\ ExplicitDeletedAtFilters(call.where) # {}
  /\ \E i \in Returned : rows[i].deletedAt # NULL

HasDeletedAtAll(where) ==
  HasKey(where, <<"deletedAt", "all">>) /\ Get(where, <<"deletedAt", "all">>) # UNDEFINED

\* the query of the where object without deletedAt_all, with no soft-delete policy
QueryWithoutAll ==
  LET stripped == Without(call.where, { <<"deletedAt", "all">> })
      qb == [createQueryBuilder EXCEPT !.limit = FindDefaultLimit]
  IN  IF stripped = <<>> THEN qb ELSE processWhereInput(qb, stripped)

StripsDeletedAtAll ==
  (FindDone /\ HasDeletedAtAll(call.where)) =>
    /\ BuiltQuery = QueryWithoutAll
    /\ (ret.err = "" /\ Len(call.where) = 1) => Returned = Ids

EntriesOf(where, combinator) ==
  IF HasKey(where, <<combinator>>)
    THEN SelectSeq(Get(where, <<combinator>>), LAMBDA entry : entry # <<>>)
    ELSE <<>>

LeavesOf(where) == Without(where, { <<"AND">>, <<"OR">>, <<"NOT">> })

LeafOf(i, entry) ==
  Leaf(parseWhereKey(entry.k).operator, RowValue(i, parseWhereKey(entry.k).attr), entry.v)

\* row i satisfies the where object: every entry of AND, one of OR, none of NOT, every leaf
RECURSIVE Satisfies(_, _)
Satisfies(i, where) ==
  LET As == EntriesOf(where, "AND")
      Os == EntriesOf(where, "OR")
      Ns == EntriesOf(where, "NOT")
      leaves == LeavesOf(where)
  IN  /\ \A k \in 1..Len(As) : Satisfies(i, As[k])
      /\ Os # <<>> => \E k \in 1..Len(Os) : Satisfies(i, Os[k])
      /\ \A k \in 1..Len(Ns) : ~Satisfies(i, Ns[k])
      /\ \A k \in 1..Len(leaves) : LeafOf(i, leaves[k]) = "T"

\* the truth value of the where object on row i in SQL's three-valued logic
RECURSIVE Truth(_, _)
Truth(i, where) ==
  LET As == EntriesOf(where, "AND")
      Os == EntriesOf(where, "OR")
      Ns == EntriesOf(where, "NOT")
      leaves == LeavesOf(where)
  IN  And3({ Truth(i, As[k]) : k \in 1..Len(As) }
           \cup (IF Os = <<>> THEN {} ELSE { Or3({ Truth(i, Os[k]) : k \in 1..Len(Os) }) })
           \cup { Not3(Truth(i, Ns[k])) : k \in 1..Len(Ns) }
           \cup { LeafOf(i, leaves[k]) : k \in 1..Len(leaves) })

\* C4 as stated: the rows returned are exactly the rows that satisfy every entry of AND,
\* at least one entry of OR, none of the entries of NOT and every leaf, at every depth
C4_SelectsRowsThatSatisfy ==
  (FindDone /\ ret.err = "") =>
    Returned = { i \in Ids : Satisfies(i, SoftDeletePolicy(call.where)) }

\* C4 amended: the rows returned are exactly the rows on which, in SQL's three-valued
\* logic, every entry of AND is true, at least one entry of OR is true, every entry of
\* NOT is false and every leaf is true, at every depth (a comparison with a NULL
\* attribute is unknown, so a row is not selected by a NOT entry that compares one)
C4_SelectsRowsFoundTrue ==
  (FindDone /\ ret.err = "") =>
    Returned = { i \in Ids : Truth(i, SoftDeletePolicy(call.where)) = "T" }

\* AND, OR, NOT and leaves together selected some rows and not others
C4_Witness ==
  /\ FindDone /\ ret.err = ""
  /\ HasKey(call.where, <<"AND">>) /\ HasKey(call.where, <<"OR">>)
  /\ HasKey(call.where, <<"NOT">>) /\ LeavesOf(call.where) # <<>>
  /\ Returned # {} /\ Returned # Ids

(***************************************************************************)
(* Properties of find: relation filters (SpecRel).                         *)
(***************************************************************************)
\* find was called with the one relation filter <attr>_<operator>: F
RelationFilterDone(attrs, operators) ==
  /\ FindDone
  /\ Len(call.where) = 1
  /\ parseWhereKey(call.where[1].k).attr \in attrs
  /\ parseWhereKey(call.where[1].k).operator \in operators

Live(i) == rows[i].deletedAt = NULL

RelatedRows(i) == Related(i, parseWhereKey(call.where[1].k).attr)

\* the related rows of parent i that satisfy every key of the nested filter
Matching(i) ==
  LET F == call.where[1].v
  IN  { b \in RelatedRows(i) :
          \A k \in 1..Len(F) :
            Leaf(parseWhereKey(F[k].k).operator,
                 BookValue(b, parseWhereKey(F[k].k).attr), F[k].v) = "T" }

\* find answered with exactly the given parents, each of them once
Returns(parents) ==
  /\ ret.err = ""
  /\ Returned = parents
  /\ Len(ret.items) = Cardinality(parents)

\* C5 as stated: <relation>_some on a one-to-many or many-to-many relation returns
\* exactly the live parents with at least one related row that satisfies the nested
\* filter, each parent once
C5_SomeReturnsParentsWithAMatch ==
  RelationFilterDone(ToMany, { "some" }) =>
    Returns({ i \in Ids : Live(i) /\ Matching(i) # {} })

\* C6 as stated: <relation>_none on a one-to-many or many-to-many relation returns
\* exactly the live parents with no related row that satisfies the nested filter,
\* parents without related rows among them
C6_NoneReturnsParentsWithoutAMatch ==
  RelationFilterDone(ToMany, { "none" }) =>
    Returns({ i \in Ids : Live(i) /\ Matching(i) = {} })

\* C7 as stated: <relation>_every on a one-to-many or many-to-many relation returns
\* exactly the parents that have more than one related row and whose related rows all
\* satisfy the nested filter
C7_EveryReturnsParentsWithOnlyMatches ==
  RelationFilterDone(ToMany, { "every" }) =>
    Returns({ i \in Ids : /\ Live(i)
                          /\ Cardinality(RelatedRows(i)) > 1
                          /\ Matching(i) = RelatedRows(i) })

KnownRelationTypes == { "one-to-many", "many-to-one", "one-to-one", "many-to-many" }

UnknownErrors ==
  { "Unknown relation type", "Unknown many-to-one operator", "Unknown many-to-many operator" }

\* C8 as stated: a key whose attribute names a relation of an unknown cardinality, or
\* whose quantifier operator is unknown, is rejected with an error
C8_UnknownRelationKeyRejected ==
  (/\ RelationFilterDone(RelationNames, Operators \cup Quantifiers \cup { "any" })
   /\ LET relation == CHOOSE r \in relations :
                        r.propertyName = parseWhereKey(call.where[1].k).attr
      IN  \/ relation.relationType \notin KnownRelationTypes
          \/ /\ Len(call.where[1].k) > 1
             /\ parseWhereKey(call.where[1].k).operator \notin Quantifiers)
  => ret.err \in UnknownErrors

(***************************************************************************)
(* Properties of the record facade (Spec).                                 *)
(***************************************************************************)
\* the rows a where object made of attribute filters resolves to under the soft-delete
\* policy of find
MatchingRows(where) == { i \in Ids : Truth(i, SoftDeletePolicy(where)) = "T" }

FindOneDone == pc = "done" /\ call.op = "findOne"

\* C9: findOne returns the row when its where resolves to exactly one row, fails as not
\* found when it resolves to none and fails as ambiguous when it resolves to two or
\* more; it never picks one of several
C9_FindOneNoneOneSeveral ==
  FindOneDone =>
    LET found == MatchingRows(call.where)
    IN  /\ found = {} => ret = Result("Unable to find", <<>>)
        /\ Cardinality(found) = 1 => ret.err = "" /\ Range(ret.items) = found
        /\ Cardinality(found) > 1 => ret = Result("Found several", <<>>)

\* findOne refused to choose between two rows
C9_Witness ==
  /\ FindOneDone
  /\ Cardinality(MatchingRows(call.where)) > 1
  /\ ret.err = "Found several"

\* C10 as stated: an update or a delete whose where resolves to no row or to more than
\* one row fails with an error and changes no row
C10_UpdateDeleteNeedOneRow ==
  [][ (/\ pc = "idle" /\ pc' = "done"
       /\ call'.op \in { "update", "delete" }
       /\ Cardinality(MatchingRows(call'.where)) # 1)
      => (ret'.err # "" /\ rows' = rows) ]_vars

\* the live rows whose columns equal the values of a delete's where object
LiveMatching(where) ==
  { i \in Ids : /\ rows[i].deletedAt = NULL
                /\ \A k \in 1..Len(where) : RowValue(i, where[k].k[1]) = where[k].v }

DeleteStep == pc = "idle" /\ pc' = "done" /\ call'.op = "delete"

\* C11 as stated: a delete whose where matches a live row stamps deletedAt and
\* deletedById on a live matching row and returns its id; no call removes a row; a
\* default find returns no deleted row
C11_DeleteStampsALiveRow ==
  [][ /\ (DeleteStep /\ LiveMatching(call'.where) # {}) =>
           /\ ret'.err = ""
           /\ ret'.items[1] \in LiveMatching(call'.where)
           /\ rows'[ret'.items[1]].deletedAt # NULL
           /\ rows'[ret'.items[1]].deletedById = call'.userId
      /\ Len(rows') >= Len(rows)
      /\ (pc' = "done" /\ call'.op = "find" /\ call'.where = <<>> /\ ret'.err = "") =>
           \A i \in Range(ret'.items) : rows'[i].deletedAt = NULL ]_vars

\* C12 as stated: when the caller supplies options.manager, every store access of the
\* call goes through that manager
C12_AccessesUseSuppliedManager ==
  (pc = "done" /\ call.options.manager # "undefined") =>
    \A k \in 1..Len(accesses) : accesses[k].manager = call.options.manager

CreateStep == pc = "idle" /\ pc' = "done" /\ call'.op \in { "create", "createMany" }

\* the entities a create or createMany call was given
Batch(c) == IF c.op = "create" THEN << c.data >> ELSE c.data

\* an entity the data model refuses: its firstName is given and empty
Refused(entity) == HasKey(entity, <<"firstName">>) /\ Get(entity, <<"firstName">>) = <<>>

\* C13: create and createMany store every entity with createdById = the actor, whatever
\* createdById the input names, and validate first: when an entity of the batch is
\* refused the call fails with a validation error and stores nothing
C13_CreateStampsAndValidatesBatch ==
  [][ CreateStep =>
        LET batch == Batch(call')
        IN  IF \E k \in 1..Len(batch) : Refused(batch[k])
              THEN ret'.err = "ArgumentValidationError" /\ rows' = rows
              ELSE /\ ret'.err = ""
                   /\ Len(rows') = Len(rows) + Len(batch)
                   /\ SubSeq(rows', 1, Len(rows)) = rows
                   /\ \A k \in 1..Len(batch) :
                        /\ rows'[Len(rows) + k].createdById = call'.userId
                        /\ rows'[Len(rows) + k].firstName = Get(batch[k], <<"firstName">>) ]_vars

\* a batch whose first entity is valid and whose second is refused was rejected
C13_Witness ==
  /\ pc = "done" /\ call.op = "createMany"
  /\ Len(call.data) = 2 /\ ~Refused(call.data[1]) /\ Refused(call.data[2])
  /\ ret.err = "ArgumentValidationError"

UpdateStep == pc = "idle" /\ pc' = "done" /\ call'.op = "update"

\* C14: a successful update changes only the one row findOne(where) finds: the row
\* keeps its id whatever id data carries, takes the attributes of data and the actor
\* as updatedById, keeps every other attribute; all other rows stay as they were; the
\* entity returned is the row as stored; a failed update stores nothing
C14_UpdateChangesOneRow ==
  [][ UpdateStep =>
        IF ret'.err # "" THEN rows' = rows
        ELSE LET i == ret'.items[1]
                 given == Without(call'.data, { <<"id">>, <<"updatedById">> })
             IN  /\ MatchingRows(call'.where) = { i }
                 /\ ~Refused(call'.data)
                 /\ Len(rows') = Len(rows)
                 /\ \A j \in Ids \ { i } : rows'[j] = rows[j]
                 /\ rows'[i].updatedById = call'.userId
                 /\ \A name \in DOMAIN rows[i] \ { "updatedById" } :
                      rows'[i][name] = IF HasKey(given, <<name>>) THEN Get(given, <<name>>)
                                       ELSE rows[i][name]
                 /\ ret'.entity = [id |-> <<i>>, row |-> rows'[i]] ]_vars

\* an update whose data carries the id of another row changed the row found
C14_Witness ==
  /\ pc = "done" /\ call.op = "update" /\ ret.err = ""
  /\ HasKey(call.data, <<"id">>)
  /\ Get(call.data, <<"id">>) # << ret.items[1] >>
  /\ Len(rows) > 1

(***************************************************************************)
(* Properties of findConnection (SpecPage).                                *)
(***************************************************************************)
PageDone == pc = "done" /\ call.op = "findConnection" /\ ret.err = ""

\* the page size in effect: first or last, or the default when none is given (a size of
\* 0 counts as none)
PageSize == limitOf(call.pageOptions)

FurtherPage ==
  IF isLastBefore(call.pageOptions)
    THEN ret.pageInfo.hasPreviousPage ELSE ret.pageInfo.hasNextPage

ForwardPaging == PageDone /\ ~isLastBefore(call.pageOptions)

BackwardPaging == PageDone /\ isLastBefore(call.pageOptions)

RECURSIVE Concat(_)
Concat(lists) == IF lists = <<>> THEN <<>> ELSE lists[1] \o Concat(Tail(lists))

\* the rows of the pages fetched so far, the page just fetched last
PagedRows == Concat([k \in 1..Len(pages) |-> pages[k].items]) \o ret.items

NoRepeat(list) == \A a, b \in 1..Len(list) : a # b => list[a] # list[b]

\* what the store answers to the caller's filter under the given sorts, without any page
FullResult(where, sorts) ==
  CHOOSE list \in Ordered(buildFindQuery(where, sorts, [limit |-> 0, offset |-> 0])) : TRUE

\* C16: paging forward with after = the endCursor of the page before never returns a row
\* twice, and once a page reports no next page the pages put together are the full
\* result in the requested sort order
C16_ForwardPagesAreTheFullResult ==
  ForwardPaging =>
    /\ NoRepeat(PagedRows)
    /\ ~ret.pageInfo.hasNextPage =>
         PagedRows = FullResult(call.where, normalizeSort(call.orderBy))

Reverse(list) == [k \in 1..Len(list) |-> list[Len(list) + 1 - k]]

Position(list, x) == CHOOSE k \in 1..Len(list) : list[k] = x

\* the rows of part are rows of whole and stand in the order they have in whole
InOrderOf(part, whole) ==
  /\ Range(part) \subseteq Range(whole)
  /\ \A a, b \in 1..Len(part) : a < b => Position(whole, part[a]) < Position(whole, part[b])

RequestedOrder == FullResult(call.where, normalizeSort(call.orderBy))

\* C17 as stated: in backward mode the edges handed to the caller are in the requested
\* sort order
C17_BackwardEdgesInRequestedOrder ==
  BackwardPaging => InOrderOf(ret.items, RequestedOrder)

\* C17: in backward mode the rows are fetched in the reverse of the requested sort order
\* and the edges are handed to the caller as fetched, in the reverse of the requested
\* order
C17_BackwardEdgesInReverseOrder ==
  BackwardPaging =>
    /\ InOrderOf(ret.rawData, Reverse(RequestedOrder))
    /\ InOrderOf(ret.items, Reverse(RequestedOrder))

\* a backward page of two rows
C17_Witness == BackwardPaging /\ Len(ret.edges) = 2 /\ ret.items[1] # ret.items[2]

Prefix(list, n) == SubSeq(list, 1, Min(Len(list), n))

\* C18: the rows are fetched backward exactly when last is present; a call with last N
\* returns the last N rows of the requested order listed from its end backwards (the
\* first N under the reversed sort), and each follow-up with before = the endCursor of
\* the page before returns the next N rows further back, no row twice
C18_LastPagesWalkBackFromTheEnd ==
  /\ ForwardPaging => InOrderOf(ret.rawData, RequestedOrder)
  /\ BackwardPaging =>
       /\ InOrderOf(ret.rawData, Reverse(RequestedOrder))
       /\ NoRepeat(PagedRows)
       /\ PagedRows = Prefix(Reverse(RequestedOrder), PageSize * (Len(pages) + 1))

\* C19: a totalCount that is asked for is the number of rows the caller's filter matches,
\* whatever the page options are, so it is the same on every page
C19_TotalCountIsOfTheUserFilter ==
  PageDone /\ call.fields.totalCount =>
    /\ ret.totalCount = Cardinality(MatchingRows(call.where))
    /\ \A k \in 1..Len(pages) : pages[k].totalCount = ret.totalCount

\* a second page under a filter of the caller: the count is of more rows than the cursor
\* leaves, and the store holds a row the filter does not match
C19_Witness ==
  /\ PageDone
  /\ call.fields.totalCount
  /\ call.where # <<>>
  /\ pages # <<>>
  /\ ret.totalCount = 2
  /\ Len(ret.rawData) = 1
  /\ Len(rows) = 3

Combinators == { <<"AND">>, <<"OR">>, <<"NOT">> }

\* the where object without the entries of AND, OR and NOT that are empty, at every depth
RECURSIVE RemoveEmpty(_)
RemoveEmpty(where) ==
  [k \in 1..Len(where) |->
     IF where[k].k \in Combinators
       THEN KV(where[k].k,
               LET kept == SelectSeq(where[k].v, LAMBDA entry : ~JSONStringifyIsEmpty(entry))
               IN  [m \in 1..Len(kept) |-> RemoveEmpty(kept[m])])
       ELSE where[k]]

\* no bracketed group of the clauses, at any depth, is without a clause
RECURSIVE NoEmptyGroup(_)
NoEmptyGroup(clauses) ==
  \A k \in 1..Len(clauses) :
    clauses[k].condition.operator \in { "brackets", "not" } =>
      /\ clauses[k].condition.condition # <<>>
      /\ NoEmptyGroup(clauses[k].condition.condition)

QueryOf(where) == buildFindQuery(where, <<>>, [limit |-> FindDefaultLimit, offset |-> 0])

\* C21: empty entries of AND, OR and NOT add nothing: the query is the one built without
\* them, a combinator whose entries are all empty adds no group, and no bracketed group
\* of the query is empty
C21_EmptyEntriesContributeNothing ==
  FindDone =>
    /\ BuiltQuery = QueryOf(RemoveEmpty(call.where))
    /\ \A key \in Combinators :
         (/\ HasKey(call.where, key)
          /\ \A k \in 1..Len(Get(call.where, key)) :
               JSONStringifyIsEmpty(Get(call.where, key)[k]))
         => BuiltQuery = QueryOf(Without(call.where, { key }))
    /\ NoEmptyGroup(BuiltQuery.wheres)

\* the parameter names of the comparisons of the clauses, at every depth (IS NULL is
\* written without a parameter)
RECURSIVE ParamKeys(_)
ParamKeys(clauses) ==
  IF clauses = <<>> THEN <<>>
  ELSE (IF clauses[1].condition.operator \in { "brackets", "not" }
          THEN ParamKeys(clauses[1].condition.condition)
        ELSE IF clauses[1].condition.operator = "isNull" THEN <<>>
        ELSE << clauses[1].condition.paramKey >>)
       \o ParamKeys(Tail(clauses))

HavingParamKeys(havings) ==
  ParamKeys([k \in 1..Len(havings) |->
               IF havings[k].kind = "count"
                 THEN [condition |-> [operator |-> "isNull"]]
                 ELSE [condition |-> havings[k].condition]])

\* the leaves of a where object: its scalar keys, the nested keys of its relation
\* filters and the leaves of the entries of its combinators that are not empty
RECURSIVE LeafCount(_)
LeafCount(where) ==
  IF where = <<>> THEN 0
  ELSE (IF where[1].k \in Combinators
          THEN LET entries == SelectSeq(where[1].v,
                                        LAMBDA entry : ~JSONStringifyIsEmpty(entry))
                   RECURSIVE sum(_)
                   sum(k) == IF k = 0 THEN 0 ELSE LeafCount(entries[k]) + sum(k - 1)
               IN  sum(Len(entries))
        ELSE IF IsRelation(where[1].k[1]) THEN Len(where[1].v)
        ELSE 1)
       + LeafCount(Tail(where))

\* C22: in the query of one call no two comparisons share a parameter name, whatever
\* attribute and operator they have and however deep they are nested; the names are
\* those of a counter that starts with the call, one name for each leaf of the where
\* object, so nothing of an earlier call is in them
C22_ParameterNamesAreUnique ==
  (FindDone /\ BuiltQuery.err = "") =>
    LET keys == ParamKeys(BuiltQuery.wheres) \o HavingParamKeys(BuiltQuery.havings)
    IN  /\ NoRepeat(keys)
        /\ BuiltQuery.counter = LeafCount(SoftDeletePolicy(call.where))
        /\ \A k \in 1..Len(keys) :
             keys[k] \in 0..(BuiltQuery.counter - 1) /\ keys[k] \in DOMAIN BuiltQuery.parameters

\* a relation filter with two nested keys beside a scalar leaf: four names with the
\* implicit deletedAt filter's
C22_Witness ==
  /\ FindDone /\ ret.err = ""
  /\ \E k \in 1..Len(call.where) :
       IsRelation(call.where[k].k[1]) /\ Len(call.where[k].v) = 2
  /\ Len(ParamKeys(BuiltQuery.wheres)) = 3
  /\ BuiltQuery.counter = 4

\* the relation filters of a where object, at every depth
RECURSIVE RelationFiltersOf(_)
RelationFiltersOf(where) ==
  IF where = <<>> THEN <<>>
  ELSE (IF where[1].k \in Combinators
          THEN Concat([k \in 1..Len(where[1].v) |-> RelationFiltersOf(where[1].v[k])])
        ELSE IF IsRelation(where[1].k[1]) THEN << where[1].k >>
        ELSE <<>>)
       \o RelationFiltersOf(Tail(where))

RelationTypeOf(attr) == (CHOOSE r \in relations : r.propertyName = attr).relationType

\* the joins a relation filter asks for: the junction table and the related table of a
\* many-to-many relation, the related table of any other
JoinsAskedFor(where, attr) ==
  LET filters == SelectSeq(RelationFiltersOf(where), LAMBDA key : key[1] = attr)
  IN  Len(filters) * (IF RelationTypeOf(attr) = "many-to-many" THEN 2 ELSE 1)

JoinsOn(qb, attr) ==
  Len(SelectSeq(qb.joins, LAMBDA join : join.propertyName = attr))

\* the depth of the deepest relation filter: 0 at the top, 1 in an entry of a combinator
RECURSIVE RelationDepth(_)
RelationDepth(where) ==
  LET nested == UNION { { RelationDepth(where[k].v[m]) + 1 : m \in 1..Len(where[k].v) }
                        : k \in { n \in 1..Len(where) : where[n].k \in Combinators } }
      deep == { d \in nested : d > 0 }
  IN  IF deep # {} THEN CHOOSE d \in deep : \A e \in deep : e <= d
      ELSE IF \E k \in 1..Len(where) :
                where[k].k \notin Combinators /\ IsRelation(where[k].k[1]) THEN 0
      ELSE -1

\* C23: every join of a relation filter, at whatever depth the filter stands inside AND,
\* OR and NOT, is a join of the outermost query: the query built has all the joins its
\* relation filters ask for, and every column its clauses name belongs to one of them
C23_JoinsAreOnTheOutermostQuery ==
  (FindDone /\ BuiltQuery.err = "") =>
    /\ \A attr \in RelationNames : JoinsOn(BuiltQuery, attr) = JoinsAskedFor(call.where, attr)
    /\ \A column \in ColumnsOf(BuiltQuery) \cup HavingColumnsOf(BuiltQuery) :
         \/ column.alias = Alias(klass, 0)
         \/ \E j \in 1..Len(BuiltQuery.joins) : BuiltQuery.joins[j].alias = column.alias

\* a relation filter in an OR entry of an AND entry found its parent
C23_Witness ==
  /\ FindDone /\ ret.err = ""
  /\ RelationDepth(call.where) > 1
  /\ Len(BuiltQuery.joins) = 2
  /\ Returned # {} /\ Returned # Ids

\* the HAVING conditions the relation filters of a where object ask for: one for each
\* none, two for each every (the comparison of the counts and the threshold)
HavingsAskedFor(where) ==
  LET filters == RelationFiltersOf(where)
      RECURSIVE sum(_)
      sum(k) == IF k = 0 THEN 0
                ELSE sum(k - 1)
                     + (IF RelationTypeOf(filters[k][1]) \notin { "one-to-many", "many-to-many" }
                          THEN 0
                        ELSE IF parseWhereKey(filters[k]).operator = "none" THEN 1
                        ELSE IF parseWhereKey(filters[k]).operator = "every" THEN 2
                        ELSE 0)
  IN  sum(Len(filters))

\* C24: the HAVING conditions of the none and every filters of a where object are all
\* part of the outermost query, also those of filters inside an entry of AND, OR or
\* NOT; a none or every filter that is the one entry of AND selects what it selects at
\* the top
C24_NestedQuantifierKeepsItsHaving ==
  (FindDone /\ BuiltQuery.err = "") =>
    /\ Len(BuiltQuery.havings) = HavingsAskedFor(call.where)
    /\ (ret.err = "" /\ call.where \in NestedQuantifierWheres /\ call.where[1].k = <<"AND">>)
       => Returned = Selected(QueryOf(call.where[1].v[1]))

(***************************************************************************)
(* Properties of none and every with several nested keys (SpecRel).        *)
(***************************************************************************)
\* C25: with a nested filter of several keys, none and every count the related rows that
\* satisfy every nested key: none returns the live parents without such a row, every
\* the live parents with more than one related row all of which are such rows
C25_QuantifierCountsEveryNestedKey ==
  (RelationFilterDone(ToMany, { "none", "every" }) /\ Len(call.where[1].v) > 1) =>
    IF parseWhereKey(call.where[1].k).operator = "none"
      THEN Returns({ i \in Ids : Live(i) /\ Matching(i) = {} })
      ELSE Returns({ i \in Ids : /\ Live(i)
                                 /\ Cardinality(RelatedRows(i)) > 1
                                 /\ Matching(i) = RelatedRows(i) })

(***************************************************************************)
(* Properties of findConnection's two queries and of its sizes (SpecPage). *)
(***************************************************************************)
ConnectionDone == pc = "done" /\ call.op = "findConnection"

\* the page options of the call without its cursor
WithoutCursor == Beyond(call.pageOptions, UNDEFINED)

\* C26: the page query and the totalCount query of a findConnection call read the
\* caller's filter under the same soft-delete policy: both can be built or neither,
\* and the rows the count query counts are the rows the page query selects once its
\* cursor filter and its limit are left out
C26_PageAndCountSelectTheSameRows ==
  (ConnectionDone /\ call.fields.totalCount) =>
    LET page == pageQuery(call.where, call.orderBy, WithoutCursor)
        count == countQuery(call.where, call.orderBy, WithoutCursor)
    IN  /\ page.err = count.err
        /\ page.err = "" => Selected(page) = Selected(count)

(***************************************************************************)
(* Properties of buildFindQuery as a whole (SpecFind).                     *)
(***************************************************************************)
\* C27: buildFindQuery leaves the where object of the caller as it was, and a second
\* query built from the object as the first call left it has the same clauses and
\* selects the same rows
C27_WhereObjectIsLeftUnchanged ==
  FindDone =>
    LET left == SoftDeletePolicy(call.where)
    IN  /\ left = call.where
        /\ QueryOf(left).err = BuiltQuery.err
        /\ QueryOf(left).wheres = BuiltQuery.wheres
        /\ BuiltQuery.err = "" => Selected(QueryOf(left)) = Selected(BuiltQuery)

(***************************************************************************)
(* Properties of the joins of one query (SpecTree).                        *)
(***************************************************************************)
\* C28: the joins of one built query have aliases that differ from one another, also
\* when two relation filters of the query name the same relation, and the store runs
\* the query
C28_JoinAliasesAreDistinct ==
  (FindDone /\ BuiltQuery.err = "") =>
    /\ \A j, k \in 1..Len(BuiltQuery.joins) :
         j # k => BuiltQuery.joins[j].alias # BuiltQuery.joins[k].alias
    /\ ret.err = ""

\* the size the caller asked for: the limit of find, first or last of findConnection
\* (-1: none)
AskedSize ==
  IF call.op = "find" THEN call.limit
  ELSE IF isLastBefore(call.pageOptions) THEN call.pageOptions.last
  ELSE call.pageOptions.first

\* C29: a query returns no more rows than the size asked for: find with limit L at most L
\* rows, findConnection with first or last N at most N edges, for every L and N from 0
\* on; without a size find returns at most 20 rows and findConnection at most 50 edges
C29_NoMoreRowsThanAskedFor ==
  (pc = "done" /\ call.op \in { "find", "findConnection" } /\ ret.err = "") =>
    Len(ret.items) <= (IF AskedSize # -1 THEN AskedSize
                       ELSE IF call.op = "find" THEN FindDefaultLimit ELSE DEFAULT_LIMIT)

(***************************************************************************)
(* Interleaved delete calls (SpecDelete).                                  *)
(***************************************************************************)
\* the calls that have returned the id of row i
Succeeded(i) ==
  { p \in Callers : pc[p] = "done" /\ ret[p].err = "" /\ ret[p].items[1] = i }

\* the rows the where of caller p matches, deleted or not
MatchedBy(p) ==
  { i \in Ids : \A k \in 1..Len(call[p].where) :
      RowValue(i, call[p].where[k].k[1]) = call[p].where[k].v }

AllReturned == \A p \in Callers : pc[p] = "done"

\* C30 as stated: of the delete calls whose where matches the same live row, run one
\* after another or interleaved at the lookup and the save, exactly one succeeds, every
\* other one fails as not-found, and the row keeps the deletedAt and deletedById that
\* the successful call stamped
C30_LiveRowIsSoftDeletedAtMostOnce ==
  \A i \in Ids :
    /\ Cardinality(Succeeded(i)) <= 1
    /\ \A p \in Succeeded(i) :
         /\ rows[i].deletedAt = Get(call[p].data, <<"deletedAt">>)
         /\ rows[i].deletedById = call[p].userId
    /\ (AllReturned /\ \A p \in Callers : MatchedBy(p) = { i }) =>
         /\ Cardinality(Succeeded(i)) = 1
         /\ \A p \in Callers \ Succeeded(i) : ret[p].err = "EntityNotFoundError"

====
